---- MODULE Spec2Model ----
(***************************************************************************)
(* Reminder engine, cron jobs and academic calendar of the productivity    *)
(* bot:                                                                    *)
(*   src/src/scheduler/notifications.py  (NotificationScheduler)           *)
(*   src/src/database/operations.py      (DatabaseOperations)              *)
(*   src/src/utils/semester_logic.py     (weeks, class days, breaks)       *)
(*   src/src/bot/handlers.py             (get_now, mute / complete /       *)
(*                                        trigger / week_number)           *)
(*   src/src/ai/intent_parser.py         (_parse_time)                     *)
(*   src/src/main.py                     (post_init, post_shutdown)        *)
(*                                                                         *)
(* Time is carried in whole minutes since 00:00 of day 0 (the stored       *)
(* strings have minute resolution: "HH:MM", ISO due dates), so a date is   *)
(* now \div 1440, the local hour is (now % 1440) \div 60 and "h hours" is  *)
(* h * 60.  One clock serves get_now(), datetime.now() and date.today():   *)
(* the process runs in the bot's timezone with no test override set.       *)
(*                                                                         *)
(* Specifications: Spec (the three reminder scans, one item), SpecOverlap  *)
(* (overlapping runs of the assignment scan), SpecBatch (scans over two    *)
(* rows, one possibly malformed), SpecCalendar (scheduler lifecycle and    *)
(* the daily cron jobs), SpecWeek (/week_number over a semester),          *)
(* SpecLogic (the calendar helpers called on their own), SpecTime          *)
(* (format_time and _parse_time).                                          *)
(***************************************************************************)
EXTENDS Integers, Sequences, FiniteSets, TLC

VARIABLES
    now,          \* the wall clock, minutes since day 0 00:00
    assignments,  \* table assignments: id -> row
    tasks,        \* table tasks: id -> row
    todos,        \* table todos: id -> row
    muted_until,  \* user_config.muted_until per chat (None when never muted)
    mutes,        \* number of mute commands issued so far
    report,       \* what the most recent handler did (job, snapshot, sends)
    firedLog,     \* per item, the levels / checkpoints fired so far, in order
    suppressed,   \* the <<chat, msg>> sends a scan skipped because the chat was muted
    runs,         \* overlapping runs of check_assignment_reminders: run -> frame
    deliveries,   \* messages the overlapping runs delivered: <<chat, msg>> -> count
    faults,       \* number of sends of the overlapping runs that raised
    events,       \* table events as get_all_events returns it (ORDER BY start_date)
    schedule,     \* table schedule: the weekly slots
    semester_start, \* user_config.semester_start_date, as a day number
    _scheduler,   \* the module-level instance of notifications.py (None or its id)
    instances,    \* the NotificationSchedulers constructed: id -> scheduler state
    last_alert,   \* what the latest run of send_offday_alert found and listed
    notices,      \* the days on which the semester-starting notice was sent
    week,         \* what get_current_week last returned to week_command
    answer        \* the latest call of a helper of utils / ai: its input and result

vars == <<now, assignments, tasks, todos, muted_until, mutes, report, firedLog,
          suppressed, runs, deliveries, faults, events, schedule, semester_start,
          _scheduler, instances, last_alert, notices, week, answer>>

overlap == <<runs, deliveries, faults>>

calendar == <<events, schedule, semester_start, _scheduler, instances, last_alert,
              notices, week, answer>>

----------------------------------------------------------------------------
(* Bounds and inputs *)

\* The most mute commands issued in one behaviour.
MaxMutes == 1

\* The most sends that raise TelegramError while runs overlap.
MaxFaults == 1

\* SQL NULL / Python None (a column left unset, a function returning None).
None == -1

\* A stored date or time string that fromisoformat / strptime rejects
\* (ValueError).
Malformed == -2

\* _get_all_chat_ids: the rows of user_config, in table order.
ChatOrder == <<"c1", "c2">>

Chats == { ChatOrder[k] : k \in DOMAIN ChatOrder }

At(day, hh, mm) == day * 1440 + hh * 60 + mm

\* The instants at which the clock is observed.  The assignment of the
\* scenarios below is due on day 3 at 17:00, so these straddle every
\* threshold (72.5h, 72h, 48h, 32h, 24h, 8h, 3h, 1h, 0.5h, 0h, -0.5h left),
\* the 20:00 one-day hour and the windows before 00:30 and 10:00.
Instants ==
    { At(0,16,30), At(0,17,0), At(0,19,59), At(0,20,0), At(0,23,45),
      At(1,0,0), At(1,0,30), At(1,0,31), At(1,8,0), At(1,10,0), At(1,17,0),
      At(1,20,0), At(1,23,45), At(2,0,30), At(2,9,0), At(2,17,0),
      At(3,9,0), At(3,14,0), At(3,16,0), At(3,16,30), At(3,17,0), At(3,17,30) }

FirstInstant == At(0,16,30)

\* Mute durations given to /mute (hours; 1 is its default), and the instants
\* at which a user issues it: just before a level or checkpoint comes due.
MuteHours == {1, 8}

MuteInstants == { At(0,16,30), At(0,19,59), At(0,23,45), At(3,9,0) }

Min(S) == CHOOSE x \in S : \A y \in S : x <= y

----------------------------------------------------------------------------
(* Rows as add_assignment / add_task / add_todo create them *)

NewAssignment(due) ==
    [due_date |-> due, last_reminder_level |-> 0, is_completed |-> FALSE]

NewTask(d, t) ==
    [scheduled_date |-> d, scheduled_time |-> t,
     reminded_1day |-> FALSE, reminded_2hours |-> FALSE, is_completed |-> FALSE]

NewTodo(d, t) ==
    [scheduled_date |-> d, scheduled_time |-> t,
     reminded |-> FALSE, is_completed |-> FALSE]

Empty == [i \in {} |-> 0]

\* The stores the model starts from: one kind of item at a time.
Scenarios ==
    { [assignments |-> [i \in {1} |-> NewAssignment(At(3,17,0))],
       tasks |-> Empty, todos |-> Empty] }
    \cup
    { [assignments |-> Empty,
       tasks |-> [i \in {1} |-> NewTask(d, t)], todos |-> Empty]
        : d \in {1, 2}, t \in {None, At(0,0,30), At(0,10,0)} }
    \cup
    { [assignments |-> Empty, tasks |-> Empty,
       todos |-> [i \in {1} |-> NewTodo(d, t)]]
        : d \in {None, 1}, t \in {None, At(0,0,30)} }

----------------------------------------------------------------------------
(* The academic calendar: events, weekly schedule, semester start *)

\* The last day the calendar clock reaches, and the last day on which
\* week_number_command is asked for the week.
LastDay == 9

LastWeekDay == 125

\* The most NotificationSchedulers constructed in one behaviour.
MaxSchedulers == 2

\* date.weekday(): 0 is Monday.  Day 0 of the model is a Wednesday.
Weekday(d) == (d + 2) % 7

\* A row of table events; a NULL name is "", a NULL end_date is None.
Event(event_type, name, name_en, start_date, end_date, affects_classes) ==
    [event_type |-> event_type, name |-> name, name_en |-> name_en,
     start_date |-> start_date, end_date |-> end_date,
     affects_classes |-> affects_classes]

\* A row of table schedule.
Slot(day_of_week, subject_code) ==
    [day_of_week |-> day_of_week, subject_code |-> subject_code]

\* The timetable: classes on Monday, Tuesday (two), Friday and one slot
\* entered for Saturday.
Timetable ==
    { Slot(0, "BITI1213"), Slot(1, "BITM1113"), Slot(1, "BITP1113"),
      Slot(4, "BITS1313"), Slot(5, "BLHW1702") }

MidBreak(s, e) == Event("break", "Cuti Pertengahan Semester", "Mid Semester Break", s, e, TRUE)
InterBreak(s, e) == Event("break", "Cuti Antara Semester", "Inter Semester Break", s, e, TRUE)

\* The event tables the calendar jobs are run against, each ordered by
\* start_date: none; a one-day holiday on Tuesday; a registration day that
\* leaves classes on; a holiday from Saturday to Monday; inter-semester
\* breaks with and without an end; a mid-semester break followed by an
\* inter-semester break; a break whose names carry no keyword.
Calendars ==
    { <<>>,
      << Event("holiday", "Hari Deepavali", "Deepavali", 6, None, TRUE) >>,
      << Event("registration", "Pendaftaran Kursus", "", 6, None, FALSE) >>,
      << Event("holiday", "Cuti Peristiwa", "", 3, 5, TRUE) >>,
      << InterBreak(2, 12) >>,
      << InterBreak(6, None) >>,
      << MidBreak(1, 2), InterBreak(8, 14) >>,
      << Event("break", "Cuti Khas", "", 9, 13, TRUE) >> }

\* What get_current_week returns: a week number or a describing string.
WeekNumber(n) == [kind |-> "week", week |-> n, text |-> ""]
Period(text) == [kind |-> "text", week |-> 0, text |-> text]
NotAsked == [kind |-> "none", week |-> 0, text |-> ""]
NotSet == [kind |-> "unset", week |-> 0, text |-> ""]

\* No helper has been called yet.
NoAnswer == [call |-> "none"]

NoAlert == [day |-> None, event |-> None, classes |-> {}]

\* The calendar state of a bot whose tables events and schedule are empty
\* and whose scheduler has not been constructed.
NoCalendar ==
    /\ events = <<>>
    /\ schedule = {}
    /\ semester_start = 0
    /\ _scheduler = None
    /\ instances = Empty
    /\ last_alert = NoAlert
    /\ notices = {}
    /\ week = NotAsked
    /\ answer = NoAnswer

----------------------------------------------------------------------------
(* Pure helpers *)

\* hours_until, in minutes
HoursUntil(target_datetime, from_datetime) == target_datetime - from_datetime

ASSIGNMENT_REMINDER_LEVELS == <<72, 48, 24, 8, 3, 1, 0>>

Threshold(level) ==
    IF level \in DOMAIN ASSIGNMENT_REMINDER_LEVELS
    THEN ASSIGNMENT_REMINDER_LEVELS[level] ELSE -1

\* GetNextReminderLevel with the loop started at current_level.
GetNextReminderLevelFromCurrent(hours_left, current_level) ==
    LET hit == { level \in current_level..7 :
                    /\ Threshold(level) >= 0
                    /\ hours_left <= Threshold(level) * 60 }
    IN  IF hit = {} THEN None ELSE Min(hit)

\* GetNextReminderLevel with the loop run from level 7 downwards.
GetNextReminderLevelMostUrgent(hours_left, current_level) ==
    LET hit == { level \in (current_level + 1)..7 :
                    /\ Threshold(level) >= 0
                    /\ hours_left <= Threshold(level) * 60 }
    IN  IF hit = {} THEN None ELSE CHOOSE x \in hit : \A y \in hit : x >= y

\* for level in range(current_level + 1, 8): first level whose threshold
\* is >= 0 and hours_left <= threshold; None when the loop ends.
GetNextReminderLevel(hours_left, current_level) ==
    LET hit == { level \in (current_level + 1)..7 :
                    /\ Threshold(level) >= 0
                    /\ hours_left <= Threshold(level) * 60 }
    IN  IF hit = {} THEN None ELSE Min(hit)

\* DatabaseOperations.is_muted
IsMuted(chat_id) ==
    IF muted_until[chat_id] = None THEN FALSE ELSE now < muted_until[chat_id]

Msg(kind, id, level, tag) == [kind |-> kind, id |-> id, level |-> level, tag |-> tag]

\* A row of a snapshot with a date or time that does not parse.
Unparsable(row) ==
    IF "due_date" \in DOMAIN row
    THEN row.due_date = Malformed
    ELSE row.scheduled_date = Malformed \/ row.scheduled_time = Malformed

\* Visited with the try around the whole loop: the scan ends at the first
\* row that raises.
VisitedUntilRaise(pending) ==
    { i \in DOMAIN pending : \A j \in DOMAIN pending : j < i => ~Unparsable(pending[j]) }

\* The rows of its snapshot a scan's for loop gets to: all of them, the
\* try / except (ValueError, TypeError) being inside the loop body.
Visited(pending) == DOMAIN pending

ChatIndex(c) == CHOOSE k \in DOMAIN ChatOrder : ChatOrder[k] = c

\* _send_notification for every chat of _get_all_chat_ids and every message
\* of msgs; failing is the set of sends on which bot.send_message raises.
Muted(msgs) == { <<c, m>> \in Chats \X msgs : IsMuted(c) }
Failed(msgs, failing) == { <<c, m>> \in Chats \X msgs : ~IsMuted(c) /\ <<c, m>> \in failing }

\* Delivered with TelegramError leaving the for loop over chat_ids: the
\* chats after the one whose send raised are not tried.
DeliveredUntilFailure(msgs, failing) ==
    { <<c, m>> \in Chats \X msgs :
        /\ ~IsMuted(c)
        /\ \A d \in Chats : ChatIndex(d) <= ChatIndex(c) /\ ~IsMuted(d) => <<d, m>> \notin failing }

Delivered(msgs, failing) == { <<c, m>> \in Chats \X msgs : ~IsMuted(c) /\ <<c, m>> \notin failing }

Idle == [job |-> "none", pending |-> Empty, fired |-> {},
         delivered |-> {}, muted |-> {}, failed |-> {}]

\* Persisted with the update made only when some chat got the message.
PersistedIfDelivered(msgs, failing) ==
    { m \in msgs : \E c \in Chats : <<c, m>> \in Delivered(msgs, failing) }

\* The messages whose reminder state a scan stores: the update follows the
\* send unconditionally, the value _send_notification returns is dropped.
Persisted(msgs, failing) == msgs

Ran(job, pending, msgs, failing) ==
    [job |-> job, pending |-> pending, fired |-> msgs,
     delivered |-> Delivered(msgs, failing),
     muted |-> Muted(msgs), failed |-> Failed(msgs, failing)]

\* The two callers of check_assignment_reminders: the 30-minute interval job
\* and trigger_command (/trigger assignments).
Runs == {"timer", "manual"}

\* A run that is not executing.
IdleRun == [pc |-> "idle", pending |-> Empty, at |-> 0, remaining |-> {},
            cur |-> 0, level |-> 0, chat |-> 0]

----------------------------------------------------------------------------
(* Initial state *)

Init ==
    /\ now = FirstInstant
    /\ \E s \in Scenarios :
        /\ assignments = s.assignments
        /\ tasks = s.tasks
        /\ todos = s.todos
    /\ muted_until = [c \in Chats |-> None]
    /\ mutes = 0
    /\ report = Idle
    /\ runs = [r \in Runs |-> IdleRun]
    /\ deliveries = [d \in {} |-> 0]
    /\ faults = 0
    /\ suppressed = {}
    /\ firedLog = [assignments |-> [i \in DOMAIN assignments |-> <<>>],
                   tasks |-> [i \in DOMAIN tasks |-> <<>>],
                   todos |-> [i \in DOMAIN todos |-> <<>>]]
    /\ NoCalendar

----------------------------------------------------------------------------
(* Environment: the clock and the user's commands *)

Tick ==
    /\ \E t \in Instants : t > now /\ now' = t
    /\ report' = Idle
    /\ UNCHANGED <<assignments, tasks, todos, muted_until, mutes, firedLog, suppressed, overlap, calendar>>

\* mute_command: muted_until = now + hours
MuteCommand ==
    /\ mutes < MaxMutes
    /\ now \in MuteInstants
    /\ \E c \in Chats, h \in MuteHours :
          muted_until' = [muted_until EXCEPT ![c] = now + h * 60]
    /\ mutes' = mutes + 1
    /\ report' = Idle
    /\ UNCHANGED <<now, assignments, tasks, todos, firedLog, suppressed, overlap, calendar>>

CompleteAssignment ==
    /\ \E a \in DOMAIN assignments :
          /\ ~assignments[a].is_completed
          /\ assignments' = [assignments EXCEPT ![a].is_completed = TRUE]
    /\ report' = Idle
    /\ UNCHANGED <<now, tasks, todos, muted_until, mutes, firedLog, suppressed, overlap, calendar>>

CompleteTask ==
    /\ \E t \in DOMAIN tasks :
          /\ ~tasks[t].is_completed
          /\ tasks' = [tasks EXCEPT ![t].is_completed = TRUE]
    /\ report' = Idle
    /\ UNCHANGED <<now, assignments, todos, muted_until, mutes, firedLog, suppressed, overlap, calendar>>

CompleteTodo ==
    /\ \E t \in DOMAIN todos :
          /\ ~todos[t].is_completed
          /\ todos' = [todos EXCEPT ![t].is_completed = TRUE]
    /\ report' = Idle
    /\ UNCHANGED <<now, assignments, tasks, muted_until, mutes, firedLog, suppressed, overlap, calendar>>

----------------------------------------------------------------------------
(* Assignment scan *)

\* get_pending_assignments without its WHERE is_completed = 0.
GetAllAssignments == [a \in DOMAIN assignments |-> assignments[a]]

\* DatabaseOperations.get_pending_assignments
GetPendingAssignments ==
    [a \in { i \in DOMAIN assignments : ~assignments[i].is_completed }
        |-> assignments[a]]

\* The level check_assignment_reminders sends and stores for one row of its
\* snapshot when its get_now() returned at; None when it does neither.
LevelToSend(row, at) ==
    LET hours_left == HoursUntil(row.due_date, at)
        current_level == row.last_reminder_level
        next_level == GetNextReminderLevel(hours_left, current_level)
    IN  IF row.due_date = None \/ row.due_date = Malformed
        THEN None   \* "if not due_date_str: continue"; ValueError caught in the loop body
        ELSE IF next_level # None /\ next_level # 0 /\ next_level > current_level
             THEN next_level ELSE None

CheckAssignmentReminders ==
    LET pending == GetPendingAssignments
        send == { a \in Visited(pending) : LevelToSend(pending[a], now) # None }
        msgs == { Msg("assignment", a, LevelToSend(pending[a], now), "level") : a \in send }
    IN  /\ \E failing \in SUBSET (Chats \X msgs) :
              /\ report' = Ran("assignments", pending, msgs, failing)
              \* update_assignment_reminder_level
              /\ assignments' =
                    [a \in DOMAIN assignments |->
                        IF \E m \in Persisted(msgs, failing) : m.id = a
                        THEN [assignments[a] EXCEPT
                                !.last_reminder_level = LevelToSend(pending[a], now)]
                        ELSE assignments[a]]
        /\ suppressed' = suppressed \cup Muted(msgs)
        /\ firedLog' =
              [firedLog EXCEPT !.assignments =
                  [a \in DOMAIN assignments |->
                      IF a \in send
                      THEN Append(firedLog.assignments[a], LevelToSend(pending[a], now))
                      ELSE firedLog.assignments[a]]]
        /\ UNCHANGED <<now, tasks, todos, muted_until, mutes, overlap, calendar>>

----------------------------------------------------------------------------
(* Task scan *)

Today == now \div 1440

\* DatabaseOperations.get_upcoming_tasks(days): open tasks dated today ..
\* today + days.  The WHERE clause compares the stored strings, so a
\* malformed date may fall inside the range: it is taken to.
GetUpcomingTasks(days) ==
    [t \in { i \in DOMAIN tasks :
                /\ ~tasks[i].is_completed
                /\ \/ tasks[i].scheduled_date = Malformed
                   \/ /\ tasks[i].scheduled_date >= Today
                      /\ tasks[i].scheduled_date <= Today + days }
        |-> tasks[t]]

\* OneDayDue with now.hour > 20.
OneDayDueAfter20(row) ==
    /\ ~row.reminded_1day
    /\ row.scheduled_date = Today + 1
    /\ (now % 1440) \div 60 > 20

\* 1-day reminder of check_task_reminders: the evening before the task's date
OneDayDue(row) ==
    /\ row.scheduled_date # Malformed
    /\ ~row.reminded_1day
    /\ row.scheduled_date = Today + 1
    /\ (now % 1440) \div 60 >= 20

\* TwoHoursDue without the test that the task has a time (a missing time
\* read as the minute before midnight).
TwoHoursDueAnyTime(row) ==
    /\ ~row.reminded_2hours
    /\ LET task_datetime == row.scheduled_date * 1440 + row.scheduled_time
           hours_left == HoursUntil(task_datetime, now)
       IN  0 <= hours_left /\ hours_left <= 2 * 60

\* 2-hour reminder of check_task_reminders: only with a time of day
TwoHoursDue(row) ==
    /\ row.scheduled_date # Malformed
    /\ row.scheduled_time # None
    /\ ~row.reminded_2hours
    /\ row.scheduled_time # Malformed
    /\ LET task_datetime == row.scheduled_date * 1440 + row.scheduled_time
           hours_left == HoursUntil(task_datetime, now)
       IN  0 <= hours_left /\ hours_left <= 2 * 60

\* update_task_reminder writing both flags, the other one as 0.
UpdateTaskReminderExclusive(row, reminder_type) ==
    [row EXCEPT !.reminded_1day = (reminder_type = "1day"),
                !.reminded_2hours = (reminder_type # "1day")]

\* DatabaseOperations.update_task_reminder
UpdateTaskReminder(row, reminder_type) ==
    IF reminder_type = "1day"
    THEN [row EXCEPT !.reminded_1day = TRUE]
    ELSE [row EXCEPT !.reminded_2hours = TRUE]

CheckTaskReminders ==
    LET pending == GetUpcomingTasks(7)
        oneDay == { t \in Visited(pending) : OneDayDue(pending[t]) }
        twoHours == { t \in Visited(pending) : TwoHoursDue(pending[t]) }
        msgs == { Msg("task", t, 0, "1day") : t \in oneDay }
                \cup { Msg("task", t, 0, "2hours") : t \in twoHours }
        After1(t, stored) ==
            IF Msg("task", t, 0, "1day") \in stored
            THEN UpdateTaskReminder(tasks[t], "1day") ELSE tasks[t]
        After2(t, stored) ==
            IF Msg("task", t, 0, "2hours") \in stored
            THEN UpdateTaskReminder(After1(t, stored), "2hours") ELSE After1(t, stored)
        Log1(t) == IF t \in oneDay THEN Append(firedLog.tasks[t], "1day") ELSE firedLog.tasks[t]
        Log2(t) == IF t \in twoHours THEN Append(Log1(t), "2hours") ELSE Log1(t)
    IN  /\ \E failing \in SUBSET (Chats \X msgs) :
              /\ report' = Ran("tasks", pending, msgs, failing)
              /\ tasks' = [t \in DOMAIN tasks |-> After2(t, Persisted(msgs, failing))]
        /\ suppressed' = suppressed \cup Muted(msgs)
        /\ firedLog' = [firedLog EXCEPT !.tasks = [t \in DOMAIN tasks |-> Log2(t)]]
        /\ UNCHANGED <<now, assignments, todos, muted_until, mutes, overlap, calendar>>

----------------------------------------------------------------------------
(* Todo scan *)

\* DatabaseOperations.get_pending_todos
GetPendingTodos ==
    [t \in { i \in DOMAIN todos : ~todos[i].is_completed } |-> todos[t]]

\* The test check_todo_reminders applies to one row of its snapshot
TodoDue(row) ==
    /\ row.scheduled_time # None
    /\ ~row.reminded
    /\ row.scheduled_date # Malformed
    /\ LET todo_date == IF row.scheduled_date # None THEN row.scheduled_date ELSE Today
           todo_datetime == todo_date * 1440 + row.scheduled_time
           hours_left == HoursUntil(todo_datetime, now)
       IN  /\ todo_date = Today
           /\ row.scheduled_time # Malformed
           /\ 0 <= hours_left /\ hours_left <= 1 * 60

CheckTodoReminders ==
    LET pending == GetPendingTodos
        due == { t \in Visited(pending) : TodoDue(pending[t]) }
        msgs == { Msg("todo", t, 0, "todo") : t \in due }
    IN  /\ \E failing \in SUBSET (Chats \X msgs) :
              /\ report' = Ran("todos", pending, msgs, failing)
              \* update_todo_reminder
              /\ todos' = [t \in DOMAIN todos |->
                              IF \E m \in Persisted(msgs, failing) : m.id = t
                              THEN [todos[t] EXCEPT !.reminded = TRUE] ELSE todos[t]]
        /\ suppressed' = suppressed \cup Muted(msgs)
        /\ firedLog' = [firedLog EXCEPT !.todos =
                          [t \in DOMAIN todos |->
                              IF t \in due THEN Append(firedLog.todos[t], "todo")
                              ELSE firedLog.todos[t]]]
        /\ UNCHANGED <<now, assignments, tasks, muted_until, mutes, overlap, calendar>>

----------------------------------------------------------------------------
(* Overlapping runs of the assignment scan.  check_assignment_reminders is a *)
(* coroutine: it gives up the event loop only inside bot.send_message, so a  *)
(* step of a run is everything it does between two such awaits.  A muted     *)
(* chat's _send_notification returns without awaiting.                       *)

Awake(from) == { k \in DOMAIN ChatOrder : k >= from /\ ~IsMuted(ChatOrder[k]) }

\* The rows of the snapshot the loop has yet to reach that get a reminder;
\* the snapshot is ordered by due date, which here is the order of the ids.
Needing(frame) ==
    { a \in frame.remaining : LevelToSend(frame.pending[a], frame.at) # None }

\* Run the loop of check_assignment_reminders on from the top of an
\* iteration until it awaits a send or returns: the frame it is left in.
Advance(frame) ==
    IF Needing(frame) = {} \/ Awake(1) = {}
    THEN IdleRun
    ELSE LET a == Min(Needing(frame))
         IN  [frame EXCEPT !.pc = "sending",
                           !.remaining = { i \in frame.remaining : i > a },
                           !.cur = a,
                           !.level = LevelToSend(frame.pending[a], frame.at),
                           !.chat = Min(Awake(1))]

\* The rows Advance(frame) passes with every chat muted: their level is
\* stored although nothing was awaited.
StoredOnTheWay(frame) ==
    IF Awake(1) = {} THEN Needing(frame) ELSE {}

Store(table, frame, ids) ==
    [a \in DOMAIN table |->
        IF a \in ids
        THEN [table[a] EXCEPT !.last_reminder_level = LevelToSend(frame.pending[a], frame.at)]
        ELSE table[a]]

\* A run enters check_assignment_reminders: snapshot, get_now(), loop.
RunStart(r) ==
    /\ runs[r].pc = "idle"
    /\ LET frame == [IdleRun EXCEPT !.pending = GetPendingAssignments,
                                    !.at = now,
                                    !.remaining = DOMAIN GetPendingAssignments]
       IN  /\ runs' = [runs EXCEPT ![r] = Advance(frame)]
           /\ assignments' = Store(assignments, frame, StoredOnTheWay(frame))
    /\ report' = Idle
    /\ UNCHANGED <<now, tasks, todos, muted_until, mutes, firedLog, suppressed, deliveries, faults, calendar>>

Bump(f, x) ==
    IF x \in DOMAIN f THEN [f EXCEPT ![x] = @ + 1]
    ELSE [y \in DOMAIN f \cup {x} |-> IF y = x THEN 1 ELSE f[y]]

\* The awaited bot.send_message returns (ok) or raises TelegramError; the
\* run goes on to the next chat, or stores the level and goes on to the
\* next row.
RunResume(r) ==
    /\ runs[r].pc = "sending"
    /\ LET frame == runs[r]
           m == Msg("assignment", frame.cur, frame.level, "level")
           rest == Awake(frame.chat + 1)
       IN  /\ \/ /\ deliveries' = Bump(deliveries, <<ChatOrder[frame.chat], m>>)
                 /\ UNCHANGED faults
              \/ /\ faults < MaxFaults
                 /\ faults' = faults + 1
                 /\ UNCHANGED deliveries
           /\ IF rest # {}
              THEN /\ runs' = [runs EXCEPT ![r].chat = Min(rest)]
                   /\ UNCHANGED assignments
              ELSE /\ runs' = [runs EXCEPT ![r] = Advance(frame)]
                   \* update_assignment_reminder_level(id, next_level)
                   /\ assignments' =
                         Store([assignments EXCEPT ![frame.cur].last_reminder_level = frame.level],
                               frame, StoredOnTheWay(frame))
    /\ report' = Idle
    /\ UNCHANGED <<now, tasks, todos, muted_until, mutes, firedLog, suppressed, calendar>>

\* Runs overlap for seconds while the clock is read in minutes: the clock
\* stands still here, and any instant up to 32 hours before the due date
\* (two levels to catch up on) may be the one the runs overlap at.
InitOverlap ==
    /\ now \in { t \in Instants : t <= At(2,9,0) }
    /\ \E s \in Scenarios :
        /\ s.assignments # Empty
        /\ assignments = s.assignments
        /\ tasks = s.tasks
        /\ todos = s.todos
    /\ muted_until = [c \in Chats |-> None]
    /\ mutes = 0
    /\ report = Idle
    /\ runs = [r \in Runs |-> IdleRun]
    /\ deliveries = [d \in {} |-> 0]
    /\ faults = 0
    /\ suppressed = {}
    /\ firedLog = [assignments |-> [i \in DOMAIN assignments |-> <<>>],
                   tasks |-> [i \in DOMAIN tasks |-> <<>>],
                   todos |-> [i \in DOMAIN todos |-> <<>>]]
    /\ NoCalendar

NextOverlap ==
    \/ MuteCommand
    \/ CompleteAssignment
    \/ \E r \in Runs : RunStart(r)
    \/ \E r \in Runs : RunResume(r)

SpecOverlap == InitOverlap /\ [][NextOverlap]_vars

----------------------------------------------------------------------------
(* semester_logic.py *)

\* parse_date: the date of an ISO string, None for NULL / "" / a string
\* that does not parse.
ParseDate(date_str) == IF date_str = None \/ date_str = Malformed THEN None ELSE date_str

\* "keyword in text.lower()" for the names the event tables use: the pairs
\* for which the test is true.  No other name of the tables ("Cuti Khas",
\* "Hari Deepavali", "Deepavali", "Cuti Peristiwa", "Pendaftaran Kursus",
\* "Peperiksaan Akhir", "Final Exam", "Cuti Semester", "") contains a keyword.
Contains(keyword, text) ==
    <<keyword, text>> \in
        { <<"pertengahan", "Cuti Pertengahan Semester">>,
          <<"mid", "Mid Semester Break">>,
          <<"semester break", "Mid Semester Break">>,
          <<"mid", "Mid-semester Break">>,
          <<"semester break", "Mid-semester Break">>,
          <<"antara", "Cuti Antara Semester">>,
          <<"inter", "Inter Semester Break">>,
          <<"semester break", "Inter Semester Break">> }

BREAK_MID_SEMESTER == "mid_semester"
BREAK_INTER_SEMESTER == "inter_semester"

ClassifyBreakEvent(event) ==
    IF Contains("pertengahan", event.name) \/ Contains("mid", event.name_en)
    THEN BREAK_MID_SEMESTER
    ELSE BREAK_INTER_SEMESTER

FirstBreak(evs, break_type) ==
    LET found == { i \in DOMAIN evs : /\ evs[i].event_type = "break"
                                      /\ ClassifyBreakEvent(evs[i]) = break_type }
    IN  IF found = {} THEN None ELSE Min(found)

\* get_all_breaks: the positions of the first mid-semester and the first
\* inter-semester break in the list (None when there is none).
GetAllBreaks(evs) ==
    [mid_break |-> FirstBreak(evs, BREAK_MID_SEMESTER),
     inter_break |-> FirstBreak(evs, BREAK_INTER_SEMESTER)]

\* "a or b" on parsed dates
OrElse(a, b) == IF a # None THEN a ELSE b

\* event.get("name_en") or event.get("name") or default
NameOf(event, default) ==
    IF event.name_en # "" THEN event.name_en
    ELSE IF event.name # "" THEN event.name ELSE default

\* start <= today <= end with end defaulting to start
Within(today, event) ==
    LET start == ParseDate(event.start_date)
        end == OrElse(ParseDate(event.end_date), start)
    IN  start # None /\ start <= today /\ today <= end

\* GetCurrentWeek returning the lecture week without the test for the end
\* of the semester.
GetCurrentWeekUncapped(today, start, evs) ==
    LET calendar_week == ((today - start) \div 7) + 1
        breaks == GetAllBreaks(evs)
        mid == breaks.mid_break
        inter == breaks.inter_break
        mid_end == IF mid = None THEN None ELSE ParseDate(evs[mid].end_date)
        lecture_week == IF mid_end # None /\ today > mid_end
                        THEN calendar_week - 1 ELSE calendar_week
    IN  IF today < start THEN Period("Before semester starts")
        ELSE IF inter # None /\ Within(today, evs[inter])
        THEN Period(NameOf(evs[inter], "Inter-semester Break"))
        ELSE IF mid # None /\ Within(today, evs[mid])
        THEN Period(NameOf(evs[mid], "Mid Semester Break"))
        ELSE WeekNumber(IF lecture_week > 1 THEN lecture_week ELSE 1)

\* GetCurrentWeek testing the mid-semester break before the inter-semester
\* break.
GetCurrentWeekMidFirst(today, start, evs) ==
    LET calendar_week == ((today - start) \div 7) + 1
        breaks == GetAllBreaks(evs)
        mid == breaks.mid_break
        inter == breaks.inter_break
        mid_end == IF mid = None THEN None ELSE ParseDate(evs[mid].end_date)
        lecture_week == IF mid_end # None /\ today > mid_end
                        THEN calendar_week - 1 ELSE calendar_week
    IN  IF today < start THEN Period("Before semester starts")
        ELSE IF mid # None /\ Within(today, evs[mid])
        THEN Period(NameOf(evs[mid], "Mid Semester Break"))
        ELSE IF inter # None /\ Within(today, evs[inter])
        THEN Period(NameOf(evs[inter], "Inter-semester Break"))
        ELSE IF lecture_week > 14
        THEN (IF inter # None THEN Period(NameOf(evs[inter], "Inter-semester Break"))
              ELSE Period("Semester ended"))
        ELSE WeekNumber(IF lecture_week > 1 THEN lecture_week ELSE 1)

\* GetCurrentWeek testing the breaks before the start of the semester.
GetCurrentWeekBreaksFirst(today, start, evs) ==
    LET calendar_week == ((today - start) \div 7) + 1
        breaks == GetAllBreaks(evs)
        mid == breaks.mid_break
        inter == breaks.inter_break
        mid_end == IF mid = None THEN None ELSE ParseDate(evs[mid].end_date)
        lecture_week == IF mid_end # None /\ today > mid_end
                        THEN calendar_week - 1 ELSE calendar_week
    IN  IF inter # None /\ Within(today, evs[inter])
        THEN Period(NameOf(evs[inter], "Inter-semester Break"))
        ELSE IF mid # None /\ Within(today, evs[mid])
        THEN Period(NameOf(evs[mid], "Mid Semester Break"))
        ELSE IF today < start THEN Period("Before semester starts")
        ELSE IF lecture_week > 14
        THEN (IF inter # None THEN Period(NameOf(evs[inter], "Inter-semester Break"))
              ELSE Period("Semester ended"))
        ELSE WeekNumber(IF lecture_week > 1 THEN lecture_week ELSE 1)

\* get_current_week
GetCurrentWeek(today, start, evs) ==
    LET calendar_week == ((today - start) \div 7) + 1
        breaks == GetAllBreaks(evs)
        mid == breaks.mid_break
        inter == breaks.inter_break
        mid_end == IF mid = None THEN None ELSE ParseDate(evs[mid].end_date)
        lecture_week == IF mid_end # None /\ today > mid_end
                        THEN calendar_week - 1 ELSE calendar_week
    IN  IF today < start THEN Period("Before semester starts")
        ELSE IF inter # None /\ Within(today, evs[inter])
        THEN Period(NameOf(evs[inter], "Inter-semester Break"))
        ELSE IF mid # None /\ Within(today, evs[mid])
        THEN Period(NameOf(evs[mid], "Mid Semester Break"))
        ELSE IF lecture_week > 14
        THEN (IF inter # None THEN Period(NameOf(evs[inter], "Inter-semester Break"))
              ELSE Period("Semester ended"))
        ELSE WeekNumber(IF lecture_week > 1 THEN lecture_week ELSE 1)

\* The events that take classes off on check_date, by position.
OffEvents(check_date, evs) ==
    { i \in DOMAIN evs : evs[i].affects_classes /\ Within(check_date, evs[i]) }

\* IsClassDay without the weekend test.
IsClassDayAnyWeekday(check_date, evs) == OffEvents(check_date, evs) = {}

\* IsClassDay counting every event, whatever its affects_classes.
IsClassDayAnyEvent(check_date, evs) ==
    IF Weekday(check_date) >= 5 THEN FALSE
    ELSE { i \in DOMAIN evs : Within(check_date, evs[i]) } = {}

\* is_class_day
IsClassDay(check_date, evs) ==
    IF Weekday(check_date) >= 5 THEN FALSE ELSE OffEvents(check_date, evs) = {}

\* GetEventOnDate taking an event whatever its affects_classes.
GetEventOnDateAnyEvent(check_date, evs) ==
    LET found == { i \in DOMAIN evs : Within(check_date, evs[i]) }
    IN  IF found = {} THEN None ELSE Min(found)

\* GetEventOnDate keeping the last event of the list that covers the date.
GetEventOnDateLast(check_date, evs) ==
    IF OffEvents(check_date, evs) = {} THEN None
    ELSE CHOOSE i \in OffEvents(check_date, evs) : \A j \in OffEvents(check_date, evs) : j <= i

\* get_event_on_date: the first event of the list that covers the date
GetEventOnDate(check_date, evs) ==
    IF OffEvents(check_date, evs) = {} THEN None ELSE Min(OffEvents(check_date, evs))

\* get_affected_classes
GetAffectedClasses(check_date, slots, evs) ==
    IF GetEventOnDate(check_date, evs) = None THEN {}
    ELSE { slot \in slots : slot.day_of_week = Weekday(check_date) }

\* No off day found.
NoOffday == [date |-> None, event |-> None]

\* future_events: the positions, in the order of the list, of the events
\* that take classes off and start after today, at most days_ahead days on.
FutureEvents(today, evs, days_ahead) ==
    SelectSeq([i \in DOMAIN evs |-> i],
              LAMBDA i : /\ ParseDate(evs[i].start_date) # None
                         /\ evs[i].affects_classes
                         /\ ParseDate(evs[i].start_date) > today
                         /\ ParseDate(evs[i].start_date) - today <= days_ahead)

\* list.sort(key=start_date): a stable sort, so an event goes behind the
\* events already placed that start on the same day or earlier.  The key is
\* the stored string; the stored dates are "YYYY-MM-DD", which order as
\* the dates do.
RECURSIVE SortByStartDate(_, _)
SortByStartDate(evs, positions) ==
    IF positions = <<>> THEN <<>>
    ELSE LET front == SortByStartDate(evs, SubSeq(positions, 1, Len(positions) - 1))
             last == positions[Len(positions)]
             ahead == SelectSeq(front, LAMBDA i : evs[i].start_date <= evs[last].start_date)
             behind == SelectSeq(front, LAMBDA i : evs[i].start_date > evs[last].start_date)
         IN  ahead \o <<last>> \o behind

\* GetNextOffday taking an event that starts today as well.
GetNextOffdayFromToday(today, evs, days_ahead) ==
    LET future_events ==
            SelectSeq([i \in DOMAIN evs |-> i],
                      LAMBDA i : /\ ParseDate(evs[i].start_date) # None
                                 /\ evs[i].affects_classes
                                 /\ ParseDate(evs[i].start_date) >= today
                                 /\ ParseDate(evs[i].start_date) - today <= days_ahead)
        nearest == SortByStartDate(evs, future_events)[1]
    IN  IF future_events = <<>> THEN NoOffday
        ELSE [date |-> ParseDate(evs[nearest].start_date), event |-> nearest]

\* get_next_offday: the date and the position of the nearest event
GetNextOffday(today, evs, days_ahead) ==
    LET future_events == FutureEvents(today, evs, days_ahead)
        nearest == SortByStartDate(evs, future_events)[1]
    IN  IF future_events = <<>> THEN NoOffday
        ELSE [date |-> ParseDate(evs[nearest].start_date), event |-> nearest]

\* DatabaseOperations.get_schedule_for_day
GetScheduleForDay(day_of_week) == { slot \in schedule : slot.day_of_week = day_of_week }

----------------------------------------------------------------------------
(* The module-level scheduler of notifications.py and its cron jobs *)

Reminders == <<assignments, tasks, todos, muted_until, mutes, firedLog,
               suppressed, overlap>>

\* A NotificationScheduler as __init__ leaves it; shut_down records that
\* scheduler.shutdown() has been called on it.
NewScheduler == [running |-> FALSE, shut_down |-> FALSE]

\* get_scheduler: the instance table and the module variable after the call
GetScheduler ==
    IF _scheduler = None
    THEN LET id == Cardinality(DOMAIN instances) + 1
         IN  [held |-> id,
              all |-> [i \in DOMAIN instances \cup {id} |->
                          IF i = id THEN NewScheduler ELSE instances[i]]]
    ELSE [held |-> _scheduler, all |-> instances]

\* NotificationScheduler.start
Start(inst) == IF ~inst.running THEN [inst EXCEPT !.running = TRUE] ELSE inst

\* NotificationScheduler.stop
Stop(inst) ==
    IF inst.running THEN [inst EXCEPT !.running = FALSE, !.shut_down = TRUE] ELSE inst

\* start_scheduler (post_init of main.py)
StartScheduler ==
    /\ _scheduler # None \/ Cardinality(DOMAIN instances) < MaxSchedulers
    /\ LET got == GetScheduler
       IN  /\ _scheduler' = got.held
           /\ instances' = [got.all EXCEPT ![got.held] = Start(got.all[got.held])]
    /\ UNCHANGED <<now, report, events, schedule, semester_start, last_alert, notices, week, answer>>
    /\ UNCHANGED Reminders

\* StopScheduler keeping the stopped instance in the module variable.
StopSchedulerKeeping ==
    /\ IF _scheduler # None
       THEN /\ instances' = [instances EXCEPT ![_scheduler] = Stop(instances[_scheduler])]
            /\ _scheduler' = _scheduler
       ELSE UNCHANGED <<_scheduler, instances>>
    /\ UNCHANGED <<now, report, events, schedule, semester_start, last_alert, notices, week, answer>>
    /\ UNCHANGED Reminders

\* stop_scheduler (post_shutdown of main.py)
StopScheduler ==
    /\ IF _scheduler # None
       THEN /\ instances' = [instances EXCEPT ![_scheduler] = Stop(instances[_scheduler])]
            /\ _scheduler' = None
       ELSE UNCHANGED <<_scheduler, instances>>
    /\ UNCHANGED <<now, report, events, schedule, semester_start, last_alert, notices, week, answer>>
    /\ UNCHANGED Reminders

\* The cron triggers of _setup_jobs, as times of day.
CronOffdayAlert == At(0,20,0)
CronSemesterStarting == At(0,20,30)
CronClassBriefing == At(0,22,0)

CalendarInstants ==
    { At(d, 0, 0) + t : d \in 0..LastDay,
                        t \in {CronOffdayAlert, CronSemesterStarting, CronClassBriefing} }

\* A job of the scheduler the module holds comes due: the scheduler runs,
\* the clock shows the job's time, and the job has not run at this instant.
Due(cron) ==
    /\ _scheduler # None
    /\ instances[_scheduler].running
    /\ now % 1440 = cron
    /\ report.job = "none"

CalendarTick ==
    /\ \E t \in CalendarInstants :
          /\ t > now
          /\ \A u \in CalendarInstants : u > now => t <= u
          /\ now' = t
    /\ report' = Idle
    /\ UNCHANGED <<events, schedule, semester_start, _scheduler, instances,
                   last_alert, notices, week, answer>>
    /\ UNCHANGED Reminders

\* The body of send_class_briefing
ClassBriefing ==
    LET tomorrow == Today + 1
        msgs == IF IsClassDay(tomorrow, events)
                THEN { Msg("briefing", tomorrow, 0, "briefing") } ELSE {}
    IN  /\ \E failing \in SUBSET (Chats \X msgs) :
              report' = Ran("class_briefing", Empty, msgs, failing)
        /\ UNCHANGED <<last_alert, notices>>

\* The body of send_offday_alert
OffdayAlert ==
    LET tomorrow == Today + 1
        event == GetEventOnDate(tomorrow, events)
        msgs == IF event # None THEN { Msg("offday", tomorrow, 0, "offday") } ELSE {}
        affected_classes == IF event # None THEN GetScheduleForDay(Weekday(tomorrow)) ELSE {}
    IN  /\ \E failing \in SUBSET (Chats \X msgs) :
              report' = Ran("offday_alert", Empty, msgs, failing)
        /\ last_alert' = [day |-> Today, event |-> event, classes |-> affected_classes]
        /\ UNCHANGED notices

\* SemesterStarting sending from seven days before the end onwards.
SemesterStartingWithinWeek ==
    LET inter_break == GetAllBreaks(events).inter_break
        break_end == IF inter_break = None THEN None
                     ELSE ParseDate(events[inter_break].end_date)
        send == break_end # None /\ break_end - Today <= 7 /\ break_end - Today >= 0
        msgs == IF send THEN { Msg("semester", break_end, 0, "semester") } ELSE {}
    IN  /\ \E failing \in SUBSET (Chats \X msgs) :
              report' = Ran("semester_starting", Empty, msgs, failing)
        /\ notices' = IF send THEN notices \cup {Today} ELSE notices
        /\ UNCHANGED last_alert

\* The body of check_semester_starting
SemesterStarting ==
    LET inter_break == GetAllBreaks(events).inter_break
        break_end == IF inter_break = None THEN None
                     ELSE ParseDate(events[inter_break].end_date)
        send == break_end # None /\ break_end - Today = 7
        msgs == IF send THEN { Msg("semester", break_end, 0, "semester") } ELSE {}
    IN  /\ \E failing \in SUBSET (Chats \X msgs) :
              report' = Ran("semester_starting", Empty, msgs, failing)
        /\ notices' = IF send THEN notices \cup {Today} ELSE notices
        /\ UNCHANGED last_alert

Untimed == <<now, events, schedule, semester_start, _scheduler, instances, week, answer>>

SendClassBriefing ==
    /\ Due(CronClassBriefing)
    /\ ClassBriefing
    /\ UNCHANGED Untimed
    /\ UNCHANGED Reminders

SendOffdayAlert ==
    /\ Due(CronOffdayAlert)
    /\ OffdayAlert
    /\ UNCHANGED Untimed
    /\ UNCHANGED Reminders

CheckSemesterStarting ==
    /\ Due(CronSemesterStarting)
    /\ SemesterStarting
    /\ UNCHANGED Untimed
    /\ UNCHANGED Reminders

\* trigger_command with "briefing" or "offday": get_scheduler, then the job
\* itself, whatever the hour and whether or not the scheduler is started.
\* (/trigger semester is left out: the notice is studied under the daily
\* cron schedule alone.)
TriggerCommand ==
    /\ _scheduler # None \/ Cardinality(DOMAIN instances) < MaxSchedulers
    /\ _scheduler' = GetScheduler.held
    /\ instances' = GetScheduler.all
    /\ ClassBriefing \/ OffdayAlert
    /\ UNCHANGED <<now, events, schedule, semester_start, week, answer>>
    /\ UNCHANGED Reminders

InitCalendar ==
    /\ now = At(0,20,0)
    /\ assignments = Empty /\ tasks = Empty /\ todos = Empty
    /\ muted_until = [c \in Chats |-> None]
    /\ mutes = 0
    /\ report = Idle
    /\ runs = [r \in Runs |-> IdleRun]
    /\ deliveries = [d \in {} |-> 0]
    /\ faults = 0
    /\ suppressed = {}
    /\ firedLog = [assignments |-> Empty, tasks |-> Empty, todos |-> Empty]
    /\ events \in Calendars
    /\ schedule = Timetable
    /\ semester_start = 0
    /\ _scheduler = None
    /\ instances = Empty
    /\ last_alert = NoAlert
    /\ notices = {}
    /\ week = NotAsked
    /\ answer = NoAnswer

NextCalendar ==
    \/ CalendarTick
    \/ StartScheduler
    \/ StopScheduler
    \/ TriggerCommand
    \/ SendClassBriefing
    \/ SendOffdayAlert
    \/ CheckSemesterStarting

SpecCalendar == InitCalendar /\ [][NextCalendar]_vars

----------------------------------------------------------------------------
(* /week_number over a semester *)

\* The event tables the week is asked against, for a semester of fourteen
\* lecture weeks that starts on day 0 or day 3: none; the regular calendar
\* (mid-semester break in the seventh calendar week, inter-semester break
\* after week 14); a mid-semester break without end date; no inter-semester
\* break; an inter-semester break without end date; a break whose names
\* carry no keyword; a mid-semester break in the first week; a
\* mid-semester break entered after the semester; breaks without English
\* name; an inter-semester break entered over the mid-semester break; a
\* mid-semester break of two days inside a week; the table of
\* tests/test_semester_logic.py (a holiday on day 14, the mid-semester
\* break on days 40..48, the final examination on days 91..104).
WeekCalendars ==
    { <<>>,
      << MidBreak(42, 48), InterBreak(105, 125) >>,
      << MidBreak(42, None) >>,
      << MidBreak(42, 48) >>,
      << InterBreak(105, None) >>,
      << Event("break", "Cuti Khas", "", 110, 120, TRUE) >>,
      << MidBreak(0, 6) >>,
      << MidBreak(110, 120) >>,
      << Event("break", "Cuti Pertengahan Semester", "", 42, 48, TRUE),
         Event("break", "Cuti Antara Semester", "", 105, 125, TRUE) >>,
      << MidBreak(42, 48), InterBreak(45, 60) >>,
      << MidBreak(44, 45) >>,
      << Event("holiday", "Hari Deepavali", "", 14, 14, TRUE),
         Event("break", "Cuti Pertengahan Semester", "Mid-semester Break", 40, 48, TRUE),
         Event("exam", "Peperiksaan Akhir", "Final Exam", 91, 104, TRUE) >> }

NextDay ==
    /\ Today < LastWeekDay
    /\ now' = now + 1440
    /\ week' = NotAsked
    /\ UNCHANGED <<report, events, schedule, semester_start, _scheduler, instances,
                   last_alert, notices, answer>>
    /\ UNCHANGED Reminders

\* week_number_command
WeekNumberCommand ==
    /\ week' = IF semester_start = None THEN NotSet
               ELSE GetCurrentWeek(Today, semester_start, events)
    /\ UNCHANGED <<now, report, events, schedule, semester_start, _scheduler, instances,
                   last_alert, notices, answer>>
    /\ UNCHANGED Reminders

InitWeek ==
    /\ now = At(0,9,0)
    /\ assignments = Empty /\ tasks = Empty /\ todos = Empty
    /\ muted_until = [c \in Chats |-> None]
    /\ mutes = 0
    /\ report = Idle
    /\ runs = [r \in Runs |-> IdleRun]
    /\ deliveries = [d \in {} |-> 0]
    /\ faults = 0
    /\ suppressed = {}
    /\ firedLog = [assignments |-> Empty, tasks |-> Empty, todos |-> Empty]
    /\ events \in WeekCalendars
    /\ schedule = Timetable
    /\ semester_start \in {None, 0, 3}
    /\ _scheduler = None
    /\ instances = Empty
    /\ last_alert = NoAlert
    /\ notices = {}
    /\ week = NotAsked
    /\ answer = NoAnswer

NextWeek == NextDay \/ WeekNumberCommand

SpecWeek == InitWeek /\ [][NextWeek]_vars

----------------------------------------------------------------------------
(* The helpers of semester_logic.py called on their own, on any day and    *)
(* any list of events                                                      *)

\* The last day a helper is asked about.
LastLogicDay == 13

\* days_ahead: the default of get_next_offday, and a short horizon.
Horizons == {90, 3}

\* The lists of events the helpers are called with: none; a one-day
\* holiday on Tuesday; a registration day that leaves classes on; a holiday
\* from Saturday to Monday; a holiday with a break entered inside it; a
\* registration day and two holidays that start on the same day; a list
\* that is not in the order of the dates; two breaks of each kind after a
\* holiday; breaks whose keyword stands in the other of their two names.
LogicCalendars ==
    { <<>>,
      << Event("holiday", "Hari Deepavali", "Deepavali", 6, None, TRUE) >>,
      << Event("registration", "Pendaftaran Kursus", "", 6, None, FALSE) >>,
      << Event("holiday", "Cuti Peristiwa", "", 3, 5, TRUE) >>,
      << Event("holiday", "Hari Deepavali", "Deepavali", 5, 8, TRUE), MidBreak(6, 7) >>,
      << Event("registration", "Pendaftaran Kursus", "", 6, None, FALSE),
         Event("holiday", "Hari Deepavali", "Deepavali", 8, None, TRUE),
         Event("holiday", "Cuti Peristiwa", "", 8, 9, TRUE) >>,
      << Event("holiday", "Cuti Peristiwa", "", 10, 12, TRUE),
         Event("holiday", "Hari Deepavali", "Deepavali", 6, None, TRUE) >>,
      << Event("holiday", "Hari Deepavali", "Deepavali", 1, None, TRUE),
         MidBreak(2, 3), MidBreak(5, 6), InterBreak(8, 9), InterBreak(11, 12) >>,
      << Event("break", "Mid Semester Break", "", 2, 3, TRUE),
         Event("break", "Cuti Semester", "Cuti Pertengahan Semester", 5, 6, TRUE),
         Event("break", "Cuti Khas", "", 8, 9, TRUE) >> }

Helpers == <<now, report, events, schedule, semester_start, _scheduler, instances,
             last_alert, notices, week>>

ClassifyBreakEventCall(i) ==
    /\ answer' = [call |-> "classify_break_event", event |-> i,
                  value |-> ClassifyBreakEvent(events[i])]
    /\ UNCHANGED Helpers
    /\ UNCHANGED Reminders

GetAllBreaksCall ==
    /\ answer' = [call |-> "get_all_breaks", value |-> GetAllBreaks(events)]
    /\ UNCHANGED Helpers
    /\ UNCHANGED Reminders

IsClassDayCall(check_date) ==
    /\ answer' = [call |-> "is_class_day", date |-> check_date,
                  value |-> IsClassDay(check_date, events)]
    /\ UNCHANGED Helpers
    /\ UNCHANGED Reminders

GetEventOnDateCall(check_date) ==
    /\ answer' = [call |-> "get_event_on_date", date |-> check_date,
                  value |-> GetEventOnDate(check_date, events)]
    /\ UNCHANGED Helpers
    /\ UNCHANGED Reminders

GetNextOffdayCall(today, days_ahead) ==
    /\ answer' = [call |-> "get_next_offday", date |-> today, days_ahead |-> days_ahead,
                  value |-> GetNextOffday(today, events, days_ahead)]
    /\ UNCHANGED Helpers
    /\ UNCHANGED Reminders

InitLogic ==
    /\ now = At(0,9,0)
    /\ assignments = Empty /\ tasks = Empty /\ todos = Empty
    /\ muted_until = [c \in Chats |-> None]
    /\ mutes = 0
    /\ report = Idle
    /\ runs = [r \in Runs |-> IdleRun]
    /\ deliveries = [d \in {} |-> 0]
    /\ faults = 0
    /\ suppressed = {}
    /\ firedLog = [assignments |-> Empty, tasks |-> Empty, todos |-> Empty]
    /\ events \in LogicCalendars
    /\ schedule = Timetable
    /\ semester_start = 0
    /\ _scheduler = None
    /\ instances = Empty
    /\ last_alert = NoAlert
    /\ notices = {}
    /\ week = NotAsked
    /\ answer = NoAnswer

NextLogic ==
    \/ \E i \in DOMAIN events : ClassifyBreakEventCall(i)
    \/ GetAllBreaksCall
    \/ \E check_date \in 0..LastLogicDay : IsClassDayCall(check_date)
    \/ \E check_date \in 0..LastLogicDay : GetEventOnDateCall(check_date)
    \/ \E today \in 0..LastLogicDay, days_ahead \in Horizons : GetNextOffdayCall(today, days_ahead)

SpecLogic == InitLogic /\ [][NextLogic]_vars

----------------------------------------------------------------------------
(* format_time (semester_logic.py) and _parse_time (ai/intent_parser.py).  *)
(* A string is the sequence of its characters; a NULL or empty string and  *)
(* a None result are the empty sequence.                                   *)

Digits == <<"0", "1", "2", "3", "4", "5", "6", "7", "8", "9">>

IsDigit(c) == \E d \in 1..10 : Digits[d] = c

DigitValue(c) == (CHOOSE d \in 1..10 : Digits[d] = c) - 1

\* The character at a position, "" past either end of the string.
CharAt(s, i) == IF i \in 1..Len(s) THEN s[i] ELSE ""

\* str(n)
RECURSIVE Str(_)
Str(n) ==
    IF n < 0 THEN <<"-">> \o Str(-n)
    ELSE IF n < 10 THEN <<Digits[n + 1]>>
    ELSE Str(n \div 10) \o <<Digits[(n % 10) + 1]>>

\* f"{n:02d}"
Pad2(n) == IF n >= 0 /\ n < 10 THEN <<"0">> \o Str(n) ELSE Str(n)

AllDigits(s) == s # <<>> /\ \A i \in 1..Len(s) : IsDigit(s[i])

\* Whether int(field) returns (a sign and digits) or raises ValueError.
IsInt(field) ==
    IF CharAt(field, 1) \in {"-", "+"} THEN AllDigits(Tail(field)) ELSE AllDigits(field)

RECURSIVE Value(_)
Value(s) ==
    IF s = <<>> THEN 0
    ELSE Value(SubSeq(s, 1, Len(s) - 1)) * 10 + DigitValue(s[Len(s)])

\* int(field)
ToInt(field) ==
    IF field[1] = "-" THEN 0 - Value(Tail(field))
    ELSE IF field[1] = "+" THEN Value(Tail(field))
    ELSE Value(field)

\* str.split(sep)
RECURSIVE Split(_, _)
Split(s, sep) ==
    LET hits == { i \in 1..Len(s) : s[i] = sep }
    IN  IF hits = {} THEN <<s>>
        ELSE <<SubSeq(s, 1, Min(hits) - 1)>> \o Split(SubSeq(s, Min(hits) + 1, Len(s)), sep)

\* format_time: anything but two integers around one colon raises
\* ValueError at the unpacking or in int() and comes back unchanged.
FormatTime(time_str) ==
    LET fields == Split(time_str, ":")
    IN  IF Len(fields) # 2 \/ ~IsInt(fields[1]) \/ ~IsInt(fields[2]) THEN time_str
        ELSE LET hour == ToInt(fields[1])
                 minute == ToInt(fields[2])
                 period == IF hour < 12 THEN <<"A", "M">> ELSE <<"P", "M">>
                 hour12 == IF hour <= 12 THEN hour ELSE hour - 12
                 display_hour == IF hour12 = 0 THEN 12 ELSE hour12
             IN  IF minute = 0 THEN Str(display_hour) \o period
                 ELSE Str(display_hour) \o <<":">> \o Pad2(minute) \o period

\* str.lower() on the letters format_time writes
Lower(s) ==
    [i \in 1..Len(s) |-> CASE s[i] = "A" -> "a" [] s[i] = "P" -> "p" [] s[i] = "M" -> "m"
                           [] OTHER -> s[i]]

\* The first position from k on that holds no blank: what \s* runs up to.
RECURSIVE SkipBlanks(_, _)
SkipBlanks(s, k) == IF CharAt(s, k) = " " THEN SkipBlanks(s, k + 1) ELSE k

\* (\d{1,2})(?::(\d{2}))?\s*(am|pm) tried at position i with digits digits
\* for the hour, with or without the group of the minutes.
TwelveHourAt(s, i, digits, minutes) ==
    LET after == IF minutes THEN i + digits + 3 ELSE i + digits
        suffix == SkipBlanks(s, after)
    IN  /\ \A x \in i..(i + digits - 1) : IsDigit(CharAt(s, x))
        /\ minutes => /\ CharAt(s, i + digits) = ":"
                      /\ IsDigit(CharAt(s, i + digits + 1))
                      /\ IsDigit(CharAt(s, i + digits + 2))
        /\ CharAt(s, suffix) \in {"a", "p"}
        /\ CharAt(s, suffix + 1) = "m"

\* (\d{1,2}):(\d{2}) tried at position i.
TwentyFourHourAt(s, i, digits) ==
    /\ \A x \in i..(i + digits - 1) : IsDigit(CharAt(s, x))
    /\ CharAt(s, i + digits) = ":"
    /\ IsDigit(CharAt(s, i + digits + 1))
    /\ IsDigit(CharAt(s, i + digits + 2))

\* The order in which re.search tries the alternatives: from the left, two
\* digits before one, the minutes present before absent.
Rank(try) == (try[1] * 4) + (IF try[2] = 2 THEN 0 ELSE 2) + (IF try[3] THEN 0 ELSE 1)

FirstTry(tries) == CHOOSE try \in tries : \A other \in tries : Rank(try) <= Rank(other)

\* _parse_time
ParseTime(time_str) ==
    LET s == Lower(time_str)
        twelve == { try \in (1..Len(s)) \X {1, 2} \X BOOLEAN :
                        TwelveHourAt(s, try[1], try[2], try[3]) }
        twentyfour == { try \in (1..Len(s)) \X {1, 2} \X {TRUE} :
                        TwentyFourHourAt(s, try[1], try[2]) }
    IN  IF time_str = <<>> THEN <<>>
        ELSE IF twelve # {}
        THEN LET match == FirstTry(twelve)
                 i == match[1]
                 hour == Value(SubSeq(s, i, i + match[2] - 1))
                 minute == IF match[3]
                           THEN Value(SubSeq(s, i + match[2] + 1, i + match[2] + 2))
                           ELSE 0
                 period == CharAt(s, SkipBlanks(s, IF match[3] THEN i + match[2] + 3
                                                   ELSE i + match[2]))
                 hour24 == IF period = "p" /\ hour # 12 THEN hour + 12
                           ELSE IF period = "a" /\ hour = 12 THEN 0
                           ELSE hour
             IN  Pad2(hour24) \o <<":">> \o Pad2(minute)
        ELSE IF twentyfour # {}
        THEN LET match == FirstTry(twentyfour)
                 i == match[1]
                 hour == Value(SubSeq(s, i, i + match[2] - 1))
                 minute == Value(SubSeq(s, i + match[2] + 1, i + match[2] + 2))
             IN  Pad2(hour) \o <<":">> \o Pad2(minute)
        ELSE <<>>

\* "HH:MM"
HHMM(hour, minute) == Pad2(hour) \o <<":">> \o Pad2(minute)

\* The times of a day as the tables store them, "00:00" to "23:59".
ValidTimes == { HHMM(hour, minute) : hour \in 0..23, minute \in 0..59 }

\* Other strings a time column or a caller may hold: "invalid", "", "8",
\* "08:00:00", "25:00", "12:60".
OtherStrings ==
    { <<"i", "n", "v", "a", "l", "i", "d">>,
      <<>>,
      <<"8">>,
      <<"0", "8", ":", "0", "0", ":", "0", "0">>,
      <<"2", "5", ":", "0", "0">>,
      <<"1", "2", ":", "6", "0">> }

FormatTimeCall(time_str) ==
    /\ answer' = [call |-> "format_time", time_str |-> time_str,
                  value |-> FormatTime(time_str)]
    /\ UNCHANGED Helpers
    /\ UNCHANGED Reminders

\* The string format_time wrote, read back by _parse_time.
ParseTimeCall ==
    /\ answer.call = "format_time"
    /\ answer' = [call |-> "_parse_time", time_str |-> answer.value,
                  formatted |-> answer.time_str,
                  value |-> ParseTime(answer.value)]
    /\ UNCHANGED Helpers
    /\ UNCHANGED Reminders

InitTime ==
    /\ now = At(0,9,0)
    /\ assignments = Empty /\ tasks = Empty /\ todos = Empty
    /\ muted_until = [c \in Chats |-> None]
    /\ mutes = 0
    /\ report = Idle
    /\ runs = [r \in Runs |-> IdleRun]
    /\ deliveries = [d \in {} |-> 0]
    /\ faults = 0
    /\ suppressed = {}
    /\ firedLog = [assignments |-> Empty, tasks |-> Empty, todos |-> Empty]
    /\ NoCalendar

NextTime ==
    \/ \E time_str \in ValidTimes \cup OtherStrings : FormatTimeCall(time_str)
    \/ ParseTimeCall

SpecTime == InitTime /\ [][NextTime]_vars

----------------------------------------------------------------------------
(* Scans over a batch: two rows of one table, the first of which may hold a *)
(* date or time that does not parse.  Rows come in the order of their ids.  *)

BatchScenarios ==
    { [assignments |-> <<NewAssignment(d), NewAssignment(At(3,17,0))>>,
       tasks |-> Empty, todos |-> Empty] : d \in {At(3,16,0), Malformed} }
    \cup
    { [assignments |-> Empty,
       tasks |-> <<NewTask(x[1], x[2]), NewTask(1, At(0,0,30))>>, todos |-> Empty]
        : x \in { <<1, At(0,10,0)>>, <<Malformed, At(0,0,30)>>, <<1, Malformed>> } }
    \cup
    { [assignments |-> Empty, tasks |-> Empty,
       todos |-> <<NewTodo(x[1], x[2]), NewTodo(1, At(0,0,30))>>]
        : x \in { <<None, At(0,0,30)>>, <<Malformed, At(0,0,30)>>, <<1, Malformed>> } }

InitBatch ==
    /\ now = FirstInstant
    /\ \E s \in BatchScenarios :
        /\ assignments = s.assignments
        /\ tasks = s.tasks
        /\ todos = s.todos
    /\ muted_until = [c \in Chats |-> None]
    /\ mutes = 0
    /\ report = Idle
    /\ runs = [r \in Runs |-> IdleRun]
    /\ deliveries = [d \in {} |-> 0]
    /\ faults = 0
    /\ suppressed = {}
    /\ firedLog = [assignments |-> [i \in DOMAIN assignments |-> <<>>],
                   tasks |-> [i \in DOMAIN tasks |-> <<>>],
                   todos |-> [i \in DOMAIN todos |-> <<>>]]
    /\ NoCalendar

NextBatch ==
    \/ Tick
    \/ CheckAssignmentReminders
    \/ CheckTaskReminders
    \/ CheckTodoReminders

SpecBatch == InitBatch /\ [][NextBatch]_vars

----------------------------------------------------------------------------

Next ==
    \/ Tick
    \/ MuteCommand
    \/ CompleteAssignment
    \/ CompleteTask
    \/ CompleteTodo
    \/ CheckAssignmentReminders
    \/ CheckTaskReminders
    \/ CheckTodoReminders

Spec == Init /\ [][Next]_vars

----------------------------------------------------------------------------
(* Properties *)

\* The threshold table as the specification states it (hours before due).
StatedThreshold(i) ==
    CASE i = 1 -> 72 [] i = 2 -> 48 [] i = 3 -> 24 [] i = 4 -> 8
      [] i = 5 -> 3 [] i = 6 -> 1 [] i = 7 -> 0

\* The unseen levels whose threshold a row of an assignment scan's snapshot
\* has reached when the scan runs.
Reached(row) ==
    { i \in 1..7 : /\ i > row.last_reminder_level
                   /\ row.due_date - now <= StatedThreshold(i) * 60 }

FiredLevels(a) ==
    { m.level : m \in { x \in report.fired : x.kind = "assignment" /\ x.id = a } }

StrictlyIncreasing(q) == \A i, j \in DOMAIN q : i < j => q[i] < q[j]

\* C1: an assignment scan fires at most one level per assignment, exactly
\* one when an unseen threshold has been reached (however many were crossed
\* since the last scan), and the levels fired for one assignment over the
\* successive scans are strictly increasing.
C1_OneLevelPerScanIncreasing ==
    /\ report.job = "assignments" =>
          \A a \in DOMAIN report.pending :
              /\ Cardinality(FiredLevels(a)) <= 1
              /\ Reached(report.pending[a]) # {} => Cardinality(FiredLevels(a)) = 1
    /\ \A a \in DOMAIN assignments : StrictlyIncreasing(firedLog.assignments[a])

\* A scan that found at least two unseen thresholds reached and fired one
\* level, the third fired for that assignment.
C1_Witness ==
    /\ report.job = "assignments"
    /\ \E a \in DOMAIN report.pending :
          /\ Cardinality(Reached(report.pending[a])) >= 2
          /\ Cardinality(FiredLevels(a)) = 1
          /\ Len(firedLog.assignments[a]) >= 3

\* The reminder state of the item a message is about, before the scan that
\* made the report (its row in the snapshot) and now.
ProgressBefore(m) ==
    CASE m.kind = "assignment" -> report.pending[m.id].last_reminder_level
      [] m.kind = "task" /\ m.tag = "1day" -> report.pending[m.id].reminded_1day
      [] m.kind = "task" /\ m.tag = "2hours" -> report.pending[m.id].reminded_2hours
      [] m.kind = "todo" -> report.pending[m.id].reminded

ProgressNow(m) ==
    CASE m.kind = "assignment" -> assignments[m.id].last_reminder_level
      [] m.kind = "task" /\ m.tag = "1day" -> tasks[m.id].reminded_1day
      [] m.kind = "task" /\ m.tag = "2hours" -> tasks[m.id].reminded_2hours
      [] m.kind = "todo" -> todos[m.id].reminded

\* What the scan stores for a message it fired.
ProgressFired(m) == IF m.kind = "assignment" THEN m.level ELSE TRUE

\* C2: when the send of a reminder to a chat that is not muted fails, the
\* scan does not advance the item's reminder state.
C2_FailedSendNotAdvanced ==
    \A x \in report.failed : ProgressNow(x[2]) = ProgressBefore(x[2])

\* C3: an assignment scan fires the most urgent applicable level, the
\* highest unseen level whose threshold has been reached.
C3_FiresMostUrgentLevel ==
    report.job = "assignments" =>
        \A a \in DOMAIN report.pending :
            \A l \in FiredLevels(a) :
                \A i \in Reached(report.pending[a]) : i <= l

\* C4: the level an assignment scan chooses is the smallest unseen level
\* whose threshold has been reached; it is fired and stored, and when no
\* such level exists nothing is fired and the stored level stays.
C4_SmallestUnseenLevel ==
    report.job = "assignments" =>
        \A a \in DOMAIN report.pending :
            LET reached == Reached(report.pending[a])
            IN  IF reached # {}
                THEN \E i \in reached :
                        /\ \A j \in reached : i <= j
                        /\ FiredLevels(a) = {i}
                        /\ assignments[a].last_reminder_level = i
                ELSE /\ FiredLevels(a) = {}
                     /\ assignments[a].last_reminder_level =
                            report.pending[a].last_reminder_level

\* Level 1 was seen, 32 hours are left (48h and 72h reached, 24h not): the
\* scan stored level 2.
C4_Witness ==
    /\ report.job = "assignments"
    /\ now = At(2,9,0)
    /\ \E a \in DOMAIN report.pending :
          /\ report.pending[a].last_reminder_level = 1
          /\ assignments[a].last_reminder_level = 2

\* C5: no step of the scans lowers an assignment's last_reminder_level or
\* clears a task's reminded_1day / reminded_2hours or a todo's reminded.
C5_ProgressMonotonic ==
    [][ /\ \A a \in DOMAIN assignments :
              assignments'[a].last_reminder_level >= assignments[a].last_reminder_level
        /\ \A t \in DOMAIN tasks :
              /\ tasks[t].reminded_1day => tasks'[t].reminded_1day
              /\ tasks[t].reminded_2hours => tasks'[t].reminded_2hours
        /\ \A t \in DOMAIN todos : todos[t].reminded => todos'[t].reminded ]_vars

\* A task scan that fired the two-hour checkpoint of a task whose one-day
\* flag was already set.
C5_Witness ==
    /\ report.job = "tasks"
    /\ \E t \in DOMAIN report.pending :
          /\ report.pending[t].reminded_1day
          /\ ~report.pending[t].reminded_2hours
          /\ tasks[t].reminded_1day /\ tasks[t].reminded_2hours

\* C6: a scan delivers nothing to a muted chat, but stores the progress of
\* what it fired all the same; and no scan delivers to a chat a message that
\* an earlier scan skipped for it while it was muted.
C6_MuteSuppressesButAdvances ==
    /\ \A x \in report.muted :
          /\ x \notin report.delivered
          /\ ProgressNow(x[2]) = ProgressFired(x[2])
    /\ report.delivered \cap suppressed = {}

\* A chat whose mute has expired, with a level skipped for it during the
\* mute, gets a later level from a scan.
C6_Witness ==
    \E x \in suppressed, y \in report.delivered :
        /\ y[1] = x[1]
        /\ ~IsMuted(x[1])
        /\ y[2].id = x[2].id /\ y[2] # x[2]

\* C7: while runs of the assignment scan overlap, no <<chat, assignment,
\* level>> reminder is delivered twice and no stored last_reminder_level is
\* overwritten with a lower one.
C7_OverlapSafe ==
    [][ /\ \A x \in DOMAIN deliveries' : deliveries'[x] <= 1
        /\ \A a \in DOMAIN assignments :
              assignments'[a].last_reminder_level >= assignments[a].last_reminder_level ]_vars

FiredFor(kind, id) == { m \in report'.fired : m.kind = kind /\ m.id = id }

\* C8: a scan that starts when an item is completed fires nothing for it
\* and leaves its row as it is.
C8_CompletedExcluded ==
    [][ /\ \A a \in DOMAIN assignments : assignments[a].is_completed =>
              assignments'[a] = assignments[a] /\ FiredFor("assignment", a) = {}
        /\ \A t \in DOMAIN tasks : tasks[t].is_completed =>
              tasks'[t] = tasks[t] /\ FiredFor("task", t) = {}
        /\ \A t \in DOMAIN todos : todos[t].is_completed =>
              todos'[t] = todos[t] /\ FiredFor("todo", t) = {} ]_vars

\* An assignment scan ran over a completed assignment that has a threshold
\* reached and unseen.
C8_Witness ==
    /\ report.job = "assignments"
    /\ \E a \in DOMAIN assignments :
          /\ assignments[a].is_completed
          /\ Reached(assignments[a]) # {}

\* The row of a task as a task scan found it: its row in the snapshot, or
\* the stored row when the snapshot left it out.
TaskBefore(t) == IF t \in DOMAIN report.pending THEN report.pending[t] ELSE tasks[t]

TaskFired(t, tag) == Msg("task", t, 0, tag) \in report.fired

Count(q, v) == Cardinality({ i \in DOMAIN q : q[i] = v })

\* C9: a task scan fires the one-day reminder of an open task exactly when
\* its date is tomorrow, the hour is 20 or later and reminded_1day is unset;
\* firing sets the flag, and over all scans it fires at most once per task.
C9_OneDayCheckpoint ==
    /\ report.job = "tasks" =>
          \A t \in DOMAIN tasks : ~tasks[t].is_completed =>
              /\ TaskFired(t, "1day") <=>
                    /\ TaskBefore(t).scheduled_date = (now \div 1440) + 1
                    /\ (now % 1440) \div 60 >= 20
                    /\ ~TaskBefore(t).reminded_1day
              /\ TaskFired(t, "1day") => tasks[t].reminded_1day
    /\ \A t \in DOMAIN tasks : Count(firedLog.tasks[t], "1day") <= 1

\* The one-day reminder fired at 20:00 sharp on the eve of the task.
C9_Witness ==
    /\ report.job = "tasks"
    /\ now % 1440 = At(0,20,0)
    /\ \E t \in DOMAIN tasks : TaskFired(t, "1day") /\ tasks[t].reminded_1day

\* C10: a task scan fires the two-hour reminder of an open task exactly when
\* the task has a time, it lies 0 to 2 hours ahead and reminded_2hours is
\* unset, at most once per task; a task without a time never fires it; and
\* each checkpoint touches its own flag only.
C10_TwoHourCheckpoint ==
    /\ report.job = "tasks" =>
          \A t \in DOMAIN tasks : ~tasks[t].is_completed =>
              LET before == TaskBefore(t)
                  left == before.scheduled_date * 1440 + before.scheduled_time - now
              IN  /\ TaskFired(t, "2hours") <=>
                        /\ before.scheduled_time # None
                        /\ 0 <= left /\ left <= 120
                        /\ ~before.reminded_2hours
                  /\ tasks[t].reminded_2hours <=>
                        (before.reminded_2hours \/ TaskFired(t, "2hours"))
                  /\ tasks[t].reminded_1day <=>
                        (before.reminded_1day \/ TaskFired(t, "1day"))
    /\ \A t \in DOMAIN tasks :
          /\ Count(firedLog.tasks[t], "2hours") <= 1
          /\ tasks[t].scheduled_time = None => Count(firedLog.tasks[t], "2hours") = 0

\* A scan fired the two-hour reminder alone, the one-day flag still unset.
C10_Witness ==
    /\ report.job = "tasks"
    /\ \E t \in DOMAIN tasks :
          /\ TaskFired(t, "2hours") /\ ~TaskFired(t, "1day")
          /\ tasks[t].reminded_2hours /\ ~tasks[t].reminded_1day

TodoFired(t) == Msg("todo", t, 0, "todo") \in report.fired

\* C11: a todo scan fires the reminder of an open todo exactly when the todo
\* has a time, reminded is unset and the time lies 0 to 1 hour ahead, the
\* date being today when none is stored (so a todo dated tomorrow at 00:30
\* fires at 23:45 today); a todo without a time never fires, and a todo
\* fires at most once.
C11_TodoCheckpoint ==
    /\ report.job = "todos" =>
          \A t \in DOMAIN report.pending :
              LET before == report.pending[t]
                  scheduledDate == IF before.scheduled_date = None
                                   THEN now \div 1440 ELSE before.scheduled_date
                  left == scheduledDate * 1440 + before.scheduled_time - now
              IN  TodoFired(t) <=>
                      /\ before.scheduled_time # None
                      /\ ~before.reminded
                      /\ 0 <= left /\ left <= 60
    /\ \A t \in DOMAIN todos :
          /\ Count(firedLog.todos[t], "todo") <= 1
          /\ todos[t].scheduled_time = None => Count(firedLog.todos[t], "todo") = 0

WellFormed(x) == x # Malformed

\* When a scan at the present instant owes a row of its snapshot a reminder,
\* as the specification states it.
DueLevels(row) ==
    IF row.due_date = None \/ ~WellFormed(row.due_date) THEN {} ELSE Reached(row)

DueOneDay(row) ==
    /\ WellFormed(row.scheduled_date)
    /\ row.scheduled_date = (now \div 1440) + 1
    /\ (now % 1440) \div 60 >= 20
    /\ ~row.reminded_1day

DueTwoHours(row) ==
    /\ WellFormed(row.scheduled_date) /\ WellFormed(row.scheduled_time)
    /\ row.scheduled_time # None
    /\ ~row.reminded_2hours
    /\ LET left == row.scheduled_date * 1440 + row.scheduled_time - now
       IN  0 <= left /\ left <= 120

\* The todo window as check_todo_reminders applies it, to todos of today.
DueTodo(row) ==
    /\ WellFormed(row.scheduled_date) /\ WellFormed(row.scheduled_time)
    /\ row.scheduled_time # None
    /\ ~row.reminded
    /\ LET scheduledDate == IF row.scheduled_date = None
                            THEN now \div 1440 ELSE row.scheduled_date
           left == scheduledDate * 1440 + row.scheduled_time - now
       IN  scheduledDate = now \div 1440 /\ 0 <= left /\ left <= 60

\* The reminders a scan owes the rows of its snapshot.
Owed ==
    CASE report.job = "assignments" ->
            { Msg("assignment", a, Min(DueLevels(report.pending[a])), "level") :
                a \in { i \in DOMAIN report.pending : DueLevels(report.pending[i]) # {} } }
      [] report.job = "tasks" ->
            { Msg("task", t, 0, "1day") :
                t \in { i \in DOMAIN report.pending : DueOneDay(report.pending[i]) } }
            \cup
            { Msg("task", t, 0, "2hours") :
                t \in { i \in DOMAIN report.pending : DueTwoHours(report.pending[i]) } }
      [] report.job = "todos" ->
            { Msg("todo", t, 0, "todo") :
                t \in { i \in DOMAIN report.pending : DueTodo(report.pending[i]) } }
      [] OTHER -> {}

Scans == {"assignments", "tasks", "todos"}

\* C12: when the send of a message to one chat fails, the scan still tries
\* the send to every other chat (each is delivered or fails on its own), and
\* every reminder the scan owes the rows of its snapshot is still sent.
C12_PerChatIsolation ==
    report.job \in Scans =>
        /\ \A m \in report.fired, c \in Chats :
              ~IsMuted(c) => <<c, m>> \in report.delivered \cup report.failed
        /\ report.delivered \cap report.failed = {}
        /\ Owed \subseteq report.fired

\* The send of the first row's reminder to the first chat failed; the
\* second chat got it, and the first chat got the reminder of the second row.
C12_Witness ==
    /\ report.job \in Scans
    /\ \E x \in report.failed, y \in report.delivered, z \in report.delivered :
          /\ x[1] = ChatOrder[1] /\ x[2].id = 1
          /\ y[1] = ChatOrder[2] /\ y[2] = x[2]
          /\ z[1] = ChatOrder[1] /\ z[2].id = 2

\* The stored reminder state a message would advance.
Untouched(kind, id) ==
    CASE kind = "assignment" -> assignments[id] = report.pending[id]
      [] kind = "task" -> tasks[id] = report.pending[id]
      [] kind = "todo" -> todos[id] = report.pending[id]

\* C13: a scan fires nothing from a date or time that does not parse (an
\* assignment, or a task or todo with a malformed date, is left as it was;
\* a malformed time fires no timed reminder), the scan completes, and it
\* fires for the other rows exactly what it owes them.
C13_MalformedSkipped ==
    report.job \in Scans =>
        /\ report.fired = Owed
        /\ report.job = "assignments" =>
              \A a \in DOMAIN report.pending :
                  ~WellFormed(report.pending[a].due_date) => Untouched("assignment", a)
        /\ report.job = "tasks" =>
              \A t \in DOMAIN report.pending :
                  /\ ~WellFormed(report.pending[t].scheduled_date) => Untouched("task", t)
                  /\ ~WellFormed(report.pending[t].scheduled_time) =>
                        /\ ~TaskFired(t, "2hours")
                        /\ tasks[t].reminded_2hours = report.pending[t].reminded_2hours
        /\ report.job = "todos" =>
              \A t \in DOMAIN report.pending :
                  Unparsable(report.pending[t]) => Untouched("todo", t)

\* A scan whose snapshot holds a malformed row ahead of a row that it
\* fired a reminder for.
C13_Witness ==
    /\ report.job \in Scans
    /\ \E i, j \in DOMAIN report.pending :
          /\ i < j
          /\ Unparsable(report.pending[i])
          /\ \E m \in report.fired : m.id = j

\* C14: a scheduler instance goes Stopped -> Running -> Stopped and never
\* runs again; start on a running scheduler and stop on one that is not
\* running leave it as it is; stop_scheduler leaves the module without an
\* instance, so the next start_scheduler runs a newly constructed one; and
\* the only instance that can be running is the one the module holds.
C14_SchedulerLifecycle ==
    [][ /\ \A i \in DOMAIN instances' :
              /\ ~(instances'[i].running /\ instances'[i].shut_down)
              /\ instances'[i].running => i = _scheduler'
        /\ \A i \in DOMAIN instances :
              /\ i \in DOMAIN instances'
              /\ instances[i].shut_down => instances'[i] = instances[i]
        /\ (StartScheduler /\ _scheduler # None /\ instances[_scheduler].running)
              => UNCHANGED <<_scheduler, instances>>
        /\ (StopScheduler /\ _scheduler # None /\ ~instances[_scheduler].running)
              => instances' = instances
        /\ StopScheduler => _scheduler' = None
        /\ (StartScheduler /\ _scheduler = None) =>
              /\ _scheduler' \notin DOMAIN instances
              /\ instances'[_scheduler'] = [running |-> TRUE, shut_down |-> FALSE] ]_vars

\* The first scheduler was started and stopped; the module holds a second
\* one, which is running.
C14_Witness ==
    /\ _scheduler = 2
    /\ instances[1].shut_down /\ ~instances[1].running
    /\ instances[2].running /\ ~instances[2].shut_down

\* An event covers a date: [startDate, endDate ?? startDate].
Covers(e, d) ==
    /\ e.start_date <= d
    /\ d <= (IF e.end_date = None THEN e.start_date ELSE e.end_date)

\* The events with affectsClasses that cover a date.
Suspending(d) == { i \in DOMAIN events : events[i].affects_classes /\ Covers(events[i], d) }

Attempted(m) == \A c \in Chats : <<c, m>> \in report.delivered \cup report.failed

\* C15: a run of the class briefing sends the briefing for tomorrow to the
\* registered chats exactly when tomorrow is a class day; when tomorrow is a
\* Saturday, a Sunday or covered by an event that affects classes, it sends
\* nothing to any chat.
C15_BriefingIffClassDay ==
    report.job = "class_briefing" =>
        LET tomorrow == (now \div 1440) + 1
            classDay == Weekday(tomorrow) \notin {5, 6} /\ Suspending(tomorrow) = {}
        IN  IF classDay
            THEN /\ report.fired = { Msg("briefing", tomorrow, 0, "briefing") }
                 /\ \A m \in report.fired : Attempted(m)
            ELSE report.fired = {} /\ report.delivered = {} /\ report.failed = {}

\* The briefing was skipped for a Saturday that no event covers.
C15_Witness ==
    /\ report.job = "class_briefing"
    /\ report.fired = {}
    /\ Weekday((now \div 1440) + 1) = 5
    /\ Suspending((now \div 1440) + 1) = {}

\* C16: a run of the off-day alert sends an alert for tomorrow exactly when
\* an event that affects classes covers tomorrow, and the classes it lists
\* are the schedule slots of tomorrow's weekday, which is what
\* get_affected_classes gives (nothing when no event covers the date).
C16_OffdayAlert ==
    report.job = "offday_alert" =>
        LET tomorrow == (now \div 1440) + 1
        IN  /\ report.fired # {} <=> Suspending(tomorrow) # {}
            /\ \A m \in report.fired : m.id = tomorrow /\ Attempted(m)
            /\ last_alert.day = now \div 1440
            /\ last_alert.classes =
                  IF Suspending(tomorrow) # {}
                  THEN { slot \in schedule : slot.day_of_week = Weekday(tomorrow) }
                  ELSE {}
            /\ last_alert.classes = GetAffectedClasses(tomorrow, schedule, events)

\* An alert for a holiday on a day with two classes, both listed.
C16_Witness ==
    /\ report.job = "offday_alert"
    /\ report.fired # {}
    /\ Cardinality(last_alert.classes) = 2

\* C17: when a run of the class briefing is skipped because tomorrow is not
\* a class day, the off-day alert that ran the same day was sent.
C17_SkippedBriefingCovered ==
    (/\ report.job = "class_briefing"
     /\ report.fired = {}
     /\ last_alert.day = now \div 1440)
        => last_alert.event # None

\* The end date of the inter-semester break (None without break or date).
InterEnd ==
    LET inter == GetAllBreaks(events).inter_break
    IN  IF inter = None THEN None ELSE events[inter].end_date

\* C18: a daily run of the semester check sends the notice exactly when
\* the inter-semester break ends 7 days after today, so over the daily runs
\* at most once, and never when the job did not run that day or the break
\* has no end date.
C18_SemesterNoticeOnce ==
    /\ report.job = "semester_starting" =>
          (report.fired # {} <=> (InterEnd # None /\ InterEnd = (now \div 1440) + 7))
    /\ Cardinality(notices) <= 1
    /\ \A d \in notices : InterEnd # None /\ d + 7 = InterEnd

\* The notice went out on an earlier day; today's run sends nothing.
C18_Witness ==
    /\ report.job = "semester_starting"
    /\ report.fired = {}
    /\ notices # {}

\* The lecture week get_current_week computes once today is known to lie
\* in no break: the calendar week, less one after the mid-semester break's
\* end date.
LectureWeek ==
    LET mid == GetAllBreaks(events).mid_break
        calendarWeek == (((now \div 1440) - semester_start) \div 7) + 1
    IN  IF mid # None /\ events[mid].end_date # None /\ (now \div 1440) > events[mid].end_date
        THEN calendarWeek - 1 ELSE calendarWeek

InBreak ==
    LET breaks == GetAllBreaks(events)
    IN  \/ breaks.mid_break # None /\ Covers(events[breaks.mid_break], now \div 1440)
        \/ breaks.inter_break # None /\ Covers(events[breaks.inter_break], now \div 1440)

\* C19: a number returned by get_current_week lies in 1..14; when the
\* lecture week it computes exceeds 14 it returns the inter-semester
\* break's name if there is such a break and "Semester ended" otherwise.
C19_WeekInRange ==
    /\ week.kind = "week" => week.week \in 1..14
    /\ (/\ week.kind \in {"week", "text"}
        /\ (now \div 1440) >= semester_start
        /\ ~InBreak
        /\ LectureWeek > 14) =>
            LET inter == GetAllBreaks(events).inter_break
            IN  /\ week.kind = "text"
                /\ week.text =
                      IF inter = None THEN "Semester ended"
                      ELSE IF events[inter].name_en # "" THEN events[inter].name_en
                      ELSE events[inter].name

\* Asked after week 14 with no inter-semester break in the calendar.
C19_Witness ==
    /\ week = Period("Semester ended")
    /\ GetAllBreaks(events).inter_break = None
    /\ LectureWeek = 15

\* C20: when get_current_week returns a week, it is max(calendarWeek, 1)
\* if there is no mid-semester break or today is not after its last day
\* (its end date, or its start date when it has no end date), and
\* max(calendarWeek - 1, 1) if today is after that day.
C20_LectureWeek ==
    week.kind = "week" =>
        LET today == now \div 1440
            calendarWeek == ((today - semester_start) \div 7) + 1
            mid == GetAllBreaks(events).mid_break
            lastDay == IF mid = None THEN None
                       ELSE IF events[mid].end_date = None THEN events[mid].start_date
                       ELSE events[mid].end_date
            counted == IF mid # None /\ today > lastDay THEN calendarWeek - 1 ELSE calendarWeek
        IN  week.week = IF counted > 1 THEN counted ELSE 1

\* The name get_current_week shows for a break: its English name, or its
\* name when it has none.
Shown(e) == IF e.name_en # "" THEN e.name_en ELSE e.name

InInterBreak ==
    LET inter == GetAllBreaks(events).inter_break
    IN  inter # None /\ Covers(events[inter], now \div 1440)

InMidBreak ==
    LET mid == GetAllBreaks(events).mid_break
    IN  mid # None /\ Covers(events[mid], now \div 1440)

\* C21: asked on a day from the start of the semester on, get_current_week
\* returns the inter-semester break's English name (its name when it has
\* none) on every day from the break's first to its last; otherwise the
\* mid-semester break's on every day from that break's first to its last;
\* the inter-semester break wins where both cover the day, and no day in
\* either break gets a week number.
C21_BreakPeriods ==
    (week.kind \in {"week", "text"} /\ (now \div 1440) >= semester_start) =>
        /\ InInterBreak =>
              week = Period(Shown(events[GetAllBreaks(events).inter_break]))
        /\ (~InInterBreak /\ InMidBreak) =>
              week = Period(Shown(events[GetAllBreaks(events).mid_break]))
        /\ (InInterBreak \/ InMidBreak) => week.kind = "text"

\* Asked on the last day of a mid-semester break that the inter-semester
\* break covers too.
C21_Witness ==
    /\ week.kind = "text"
    /\ (now \div 1440) >= semester_start
    /\ InInterBreak
    /\ InMidBreak
    /\ (now \div 1440) = events[GetAllBreaks(events).mid_break].end_date

\* C22: asked on a day before the start of the semester, get_current_week
\* returns "Before semester starts" whatever the events, also on a day
\* inside a break.
C22_BeforeSemester ==
    (week.kind \in {"week", "text"} /\ (now \div 1440) < semester_start) =>
        week = Period("Before semester starts")

\* Asked before the semester on a day inside a mid-semester break.
C22_Witness ==
    /\ week = Period("Before semester starts")
    /\ (now \div 1440) < semester_start
    /\ InMidBreak

\* The examination periods that cover today.
ExamsToday ==
    { i \in DOMAIN events : events[i].event_type = "exam" /\ Covers(events[i], now \div 1440) }

\* C23: asked on a day of the semester inside an examination period,
\* get_current_week returns the English name of that period, not a week
\* number.
C23_ExamPeriod ==
    (/\ week.kind \in {"week", "text"}
     /\ (now \div 1440) >= semester_start
     /\ ~InInterBreak /\ ~InMidBreak
     /\ ExamsToday # {}) =>
        \E i \in ExamsToday : week = Period(events[i].name_en)

\* C29: with the start of the semester and the events fixed, the week
\* numbers get_current_week returns never go backwards: the number for an
\* earlier day is at most the number for today.
C29_WeeksNeverGoBack ==
    week.kind = "week" =>
        \A d \in semester_start .. (now \div 1440) :
            LET earlier == GetCurrentWeek(d, semester_start, events)
            IN  earlier.kind = "week" => earlier.week <= week.week

\* The kind the claim gives a break: mid-semester when either of its two
\* names contains "pertengahan" or "mid", inter-semester otherwise.
StatedKind(e) ==
    IF \E keyword \in {"pertengahan", "mid"} :
            Contains(keyword, e.name) \/ Contains(keyword, e.name_en)
    THEN BREAK_MID_SEMESTER ELSE BREAK_INTER_SEMESTER

\* The first event of type break of a stated kind (None without one).
StatedFirst(kind) ==
    LET found == { i \in DOMAIN events : /\ events[i].event_type = "break"
                                         /\ StatedKind(events[i]) = kind }
    IN  IF found = {} THEN None ELSE Min(found)

\* C24: classify_break_event returns mid_semester whenever the event's name
\* or English name contains "pertengahan" or "mid" and inter_semester in
\* every other case; get_all_breaks keeps, for each kind, the first event
\* of type break in the order of the list.
C24_Classification ==
    /\ answer.call = "classify_break_event" =>
            answer.value = StatedKind(events[answer.event])
    /\ answer.call = "get_all_breaks" =>
            /\ answer.value.mid_break = StatedFirst(BREAK_MID_SEMESTER)
            /\ answer.value.inter_break = StatedFirst(BREAK_INTER_SEMESTER)

\* C25: is_class_day is false on every Saturday and Sunday; on Monday to
\* Friday it is false exactly when some event with affects_classes covers
\* the date (its end date defaulting to its start date), so an event
\* without affects_classes never takes a class day away.
C25_ClassDay ==
    answer.call = "is_class_day" =>
        answer.value = (Weekday(answer.date) \notin {5, 6} /\ Suspending(answer.date) = {})

\* A weekday covered only by an event that leaves classes on: a class day.
C25_Witness ==
    /\ answer.call = "is_class_day"
    /\ answer.value
    /\ \E i \in DOMAIN events : ~events[i].affects_classes /\ Covers(events[i], answer.date)

\* C26: get_event_on_date returns the first event of the list with
\* affects_classes that covers the date (first and last day included, the
\* end date defaulting to the start date) and nothing when there is none;
\* of two events that overlap, the earlier in the list.
C26_EventOnDate ==
    answer.call = "get_event_on_date" =>
        IF Suspending(answer.date) = {} THEN answer.value = None
        ELSE /\ answer.value \in Suspending(answer.date)
             /\ \A j \in Suspending(answer.date) : answer.value <= j

\* Asked about the last day of a break entered inside a longer holiday.
C26_Witness ==
    /\ answer.call = "get_event_on_date"
    /\ Cardinality(Suspending(answer.date)) = 2
    /\ answer.value = 1
    /\ answer.date = events[2].end_date

\* The events get_next_offday may return: with affects_classes, starting
\* after today and at most days_ahead days on.
Qualifying(today, days_ahead) ==
    { i \in DOMAIN events : /\ events[i].affects_classes
                            /\ events[i].start_date > today
                            /\ events[i].start_date - today <= days_ahead }

\* C27: get_next_offday returns, of the events with affects_classes that
\* start after today and within days_ahead days, the one that starts first
\* (the first of the list among those starting the same day) and its start
\* date, and nothing when there is none; an event that starts today or is
\* in progress is never returned.
C27_NextOffday ==
    answer.call = "get_next_offday" =>
        LET qualifying == Qualifying(answer.date, answer.days_ahead)
            nearest == answer.value.event
        IN  IF qualifying = {} THEN answer.value = NoOffday
            ELSE /\ nearest \in qualifying
                 /\ \A j \in qualifying :
                        \/ events[nearest].start_date < events[j].start_date
                        \/ /\ events[nearest].start_date = events[j].start_date
                           /\ nearest <= j
                 /\ answer.value.date = events[nearest].start_date

\* Two holidays start on the nearest off day; the first of the list is
\* returned.
C27_Witness ==
    /\ answer.call = "get_next_offday"
    /\ answer.value # NoOffday
    /\ \E j \in Qualifying(answer.date, answer.days_ahead) :
            /\ j > answer.value.event
            /\ events[j].start_date = answer.value.date

C30_EscalationConverges ==
    /\ \A a \in DOMAIN assignments :
          /\ assignments[a].last_reminder_level \in 0..7
          /\ Len(firedLog.assignments[a]) <= 7
          /\ \A i, j \in DOMAIN firedLog.assignments[a] :
                i # j => firedLog.assignments[a][i] # firedLog.assignments[a][j]
    /\ report.job = "assignments" =>
          \A a \in DOMAIN report.pending :
              /\ (report.pending[a].last_reminder_level < 7
                    /\ now >= report.pending[a].due_date) =>
                      assignments[a].last_reminder_level > report.pending[a].last_reminder_level
              /\ report.pending[a].last_reminder_level = 7 =>
                      /\ FiredLevels(a) = {}
                      /\ assignments[a].last_reminder_level = 7

\* A scan finds the assignment at level 7, past its due time and with all
\* seven reminders fired, and fires nothing.
C30_Witness ==
    /\ report.job = "assignments"
    /\ \E a \in DOMAIN report.pending :
          /\ report.pending[a].last_reminder_level = 7
          /\ now >= report.pending[a].due_date
          /\ Len(firedLog.assignments[a]) = 7
    /\ report.fired = {}

====
